---- MODULE Spec2Model ----
(***************************************************************************)
(* Model of the quote-intake backend (api/src/auth.js, api/src/server.js   *)
(* and the SQL schema): the quotes and files tables, the multipart submit  *)
(* handler with its awaits, the admin guards and the admin routes.         *)
(***************************************************************************)
EXTENDS Integers, Sequences, FiniteSets, TLC

VARIABLES
  env,            \* process.env as read at start: ADMIN_EMAIL, ADMIN_PASSWORD
  now,            \* the storage clock read by now()
  quotes,         \* quotes table: id -> row
  nextQuoteId,    \* SERIAL sequence of quotes.id
  files,          \* files table: id -> row
  nextFileId,     \* SERIAL sequence of files.id
  disk,           \* names of the files present in UPLOAD_DIR
  submits,        \* number of multipart submissions received
  HAS_URGENCY,    \* the process-wide capability cache
  hasCol,         \* whether the quotes table has an urgency column
  detectQueries,  \* information_schema queries issued so far
  h,              \* the in-flight submit handlers, one per connection
  call            \* the last admin call and its response

vars == <<env, now, quotes, nextQuoteId, files, nextFileId, disk, submits,
          HAS_URGENCY, hasCol, detectQueries, h, call>>

(* ---------- bounds ---------- *)
MaxTime == 2
MaxRows == 1
MaxSubmits == 2
MaxFiles == 2

Handlers == {"h1", "h2"}

(* ---------- schema ---------- *)
Statuses == {"pending", "reviewing", "quoted", "scheduled", "closed", "cancelled"}

NewQuoteRowCreatedOnly(t) == [status |-> "reviewing", created_at |-> t, updated_at |-> t]

\* The row an INSERT INTO quotes produces: status and both timestamps come
\* from the column defaults, now() being one value within the statement.
NewQuoteRow(t) == [status |-> "pending", created_at |-> t, updated_at |-> t]

SetStatusTouchCreated(row, status, t) == [row EXCEPT !.status = status, !.created_at = t]

SetStatusDropVals(row, status, t) ==
  [row EXCEPT !.status = status, !.updated_at = t, !.vals = 0]

SetStatusKeepTime(row, status, t) == [row EXCEPT !.status = status]

\* UPDATE quotes SET status=$1, updated_at=now()
SetStatus(row, status, t) == [row EXCEPT !.status = status, !.updated_at = t]

\* CHECK (status IN (...)) of the quotes table
CheckStatus(row) == row.status \in Statuses

CascadeNothing(fs, id) == fs

\* ON DELETE CASCADE of files.quote_id
Cascade(fs, id) == [f \in {g \in DOMAIN fs : fs[g].quote_id # id} |-> fs[f]]

(* ---------- tokens and requests ---------- *)
\* A token string: its form, whether its signature verifies under
\* JWT_SECRET, whether its exp claim is in the past, its role claim.
Tok(form, sig, expired, role) ==
  [form |-> form, sig |-> sig, expired |-> expired, role |-> role]

EmptyString == Tok("empty", FALSE, FALSE, "none")
TGood == Tok("jwt", TRUE, FALSE, "admin")
TExpired == Tok("jwt", TRUE, TRUE, "admin")
TBadSig == Tok("jwt", FALSE, FALSE, "admin")
TMalformed == Tok("garbage", FALSE, FALSE, "none")
TUser == Tok("jwt", TRUE, FALSE, "user")

NullPayload == [role |-> "null"]

\* req.headers.authorization as scheme and credentials; req.query.token as
\* absent, a string, or an array (a repeated parameter).
Req(scheme, cred, qkind, qtok) ==
  [scheme |-> scheme, cred |-> cred, qkind |-> qkind, qtok |-> qtok]

NoAuth == Req("", EmptyString, "absent", EmptyString)
Header(t) == Req("Bearer", t, "absent", EmptyString)
Query(t) == Req("", EmptyString, "string", t)

\* h.match(/^Bearer (.+)$/)
extractBearer(req) ==
  IF req.scheme = "Bearer" /\ req.cred.form # "empty" THEN req.cred ELSE EmptyString

\* jwt.verify throws on a malformed token, a bad signature, an expired token
JwtVerifyThrows(token) ==
  token.form # "jwt" \/ ~token.sig \/ token.expired

verifyAdminNoExpiry(token) ==
  IF token.form = "empty" THEN NullPayload
  ELSE IF token.form # "jwt" \/ ~token.sig THEN NullPayload
  ELSE IF token.role = "admin" THEN [role |-> token.role] ELSE NullPayload

verifyAdminAnyRole(token) ==
  IF token.form = "empty" THEN NullPayload
  ELSE IF JwtVerifyThrows(token) THEN NullPayload
  ELSE [role |-> token.role]

verifyAdmin(token) ==
  IF token.form = "empty" THEN NullPayload
  ELSE IF JwtVerifyThrows(token) THEN NullPayload
  ELSE IF token.role = "admin" THEN [role |-> token.role] ELSE NullPayload

\* Strict guard: TRUE when next() is called, FALSE when unauthorized(res)
requireAdmin(req) == verifyAdmin(extractBearer(req)) # NullPayload

requireAdminAllowQueryStrict(req) == verifyAdmin(extractBearer(req)) # NullPayload

requireAdminAllowQueryEither(req) ==
  \/ verifyAdmin(extractBearer(req)) # NullPayload
  \/ req.qkind = "string" /\ verifyAdmin(req.qtok) # NullPayload

\* Lenient guard
requireAdminAllowQuery(req) ==
  LET token == IF extractBearer(req).form = "empty" /\ req.qkind = "string"
               THEN req.qtok ELSE extractBearer(req)
  IN verifyAdmin(token) # NullPayload

\* res.status(401).json({ error: 'Unauthorized' })
unauthorized == [code |-> 401, error |-> "Unauthorized"]

(* ---------- urgency-column detection ---------- *)
Null == "null"

\* HAS_URGENCY = rowCount > 0, or false when the catalog query throws
DetectResult(outcome, col) ==
  IF outcome = "error" THEN "false" ELSE IF col THEN "true" ELSE "false"

(* ---------- submit handler ---------- *)
Idle ==
  [pc |-> "idle", sub |-> 0, pending |-> <<>>, quoteId |-> 0, urgency |-> FALSE,
   code |-> 0, error |-> "", id |-> 0]

\* the handler's position once it has sent its response
Responded(hp, code, error, id) ==
  [hp EXCEPT !.pc = "idle", !.pending = <<>>, !.code = code, !.error = error, !.id = id]

\* the names multer gave the files of submission s (randomUUID: never reused)
Uploaded(s, n) == {<<s, i>> : i \in 1..n}

PathSeq(s, n) == [i \in 1..n |-> <<s, i>>]

\* A multipart text field: absent, or a string known by its length and, where
\* the schema looks at the text itself, by its text.
Missing == [t |-> "undefined", len |-> 0, v |-> ""]
Text(len) == [t |-> "string", len |-> len, v |-> ""]
Word(v) == [t |-> "string", len |-> 8, v |-> v]

\* z.string().email() on the texts the model submits
EmailTexts == {"ana@smile.tn", "Ana@Smile.TN", "admin@smile.tn", "Admin@Smile.TN"}

IsEmail(f) == f.t = "string" /\ f.v \in EmailTexts

\* z.enum([...]) of the urgency field (accents and dash written in ASCII)
Urgencies == {"Des que possible", "Dans 1-3 mois", "Plus tard"}

NotesLimit == 5000

QuoteSchemaNoNotes(body) ==
  /\ body.name.t = "string" /\ body.name.len >= 2
  /\ IsEmail(body.email)
  /\ body.phone.t = "string" /\ body.phone.len >= 4
  /\ body.urgency.t = "undefined" \/ body.urgency.v \in Urgencies
  /\ body.consent.t = "undefined" \/ body.consent.v \in {"true", "false"}

\* QuoteSchema.parse(req.body) returns (TRUE) or throws a ZodError (FALSE)
QuoteSchema(body) ==
  /\ body.name.t = "string" /\ body.name.len >= 2
  /\ IsEmail(body.email)
  /\ body.phone.t = "string" /\ body.phone.len >= 4
  /\ body.urgency.t = "undefined" \/ body.urgency.v \in Urgencies
  /\ body.notes.t = "undefined" \/ body.notes.len <= NotesLimit
  /\ body.consent.t = "undefined" \/ body.consent.v \in {"true", "false"}

\* limits: { fileSize: 10 * 1024 * 1024, files: 10 }
FileSizeLimit == 10485760
FileCountLimit == 10

\* upload.array('files') of a submission with n file parts, the largest of
\* size bytes, when a limit is exceeded: multer removes what it stored and
\* passes its error to next(), the handler is skipped and the global error
\* guard answers
SubmitOverLimit(p, n, size) ==
  /\ h[p].pc = "idle"
  /\ n > FileCountLimit \/ size > FileSizeLimit
  /\ submits' = submits + 1
  /\ h' = [h EXCEPT ![p] =
             Responded([Idle EXCEPT !.sub = submits + 1], 500, "Server error", 0)]
  /\ UNCHANGED <<env, now, quotes, nextQuoteId, files, nextFileId, disk, HAS_URGENCY, hasCol,
                 detectQueries, call>>

\* multer stores the files, QuoteSchema.parse validates, hasUrgencyColumn()
\* answers from the cache or issues the catalog query and awaits it
SubmitBegin(p, n, valid) ==
  /\ h[p].pc = "idle"
  /\ n <= FileCountLimit
  /\ submits' = submits + 1
  /\ disk' = disk \cup Uploaded(submits + 1, n)
  /\ LET started == [Idle EXCEPT !.sub = submits + 1, !.pending = PathSeq(submits + 1, n)]
     IN IF ~valid
        THEN /\ h' = [h EXCEPT ![p] = Responded(started, 400, "Invalid payload", 0)]
             /\ UNCHANGED detectQueries
        ELSE IF HAS_URGENCY # Null
        THEN /\ h' = [h EXCEPT ![p] = [started EXCEPT !.pc = "insert",
                                                      !.urgency = (HAS_URGENCY = "true")]]
             /\ UNCHANGED detectQueries
        ELSE /\ h' = [h EXCEPT ![p] = [started EXCEPT !.pc = "detect"]]
             /\ detectQueries' = detectQueries + 1
  /\ UNCHANGED <<env, now, quotes, nextQuoteId, files, nextFileId, HAS_URGENCY, hasCol, call>>

\* the catalog query settles: HAS_URGENCY is assigned, the column list is
\* built and the INSERT INTO quotes is issued
DetectResolve(p, outcome) ==
  /\ h[p].pc = "detect"
  /\ HAS_URGENCY' = DetectResult(outcome, hasCol)
  /\ h' = [h EXCEPT ![p] = [@ EXCEPT !.pc = "insert", !.urgency = (HAS_URGENCY' = "true")]]
  /\ UNCHANGED <<env, now, quotes, nextQuoteId, files, nextFileId, disk, submits, hasCol,
                 detectQueries, call>>

\* the INSERT INTO quotes settles; the columns it supplies (name, email, ...)
\* are kept as vals, the submission they came from
InsertResolve(p, ok) ==
  /\ h[p].pc = "insert"
  /\ IF ok /\ (h[p].urgency => hasCol)
     THEN /\ quotes' = quotes @@ (nextQuoteId :> (NewQuoteRow(now) @@ [vals |-> h[p].sub]))
          /\ nextQuoteId' = nextQuoteId + 1
          /\ h' = [h EXCEPT ![p] =
                     IF h[p].pending = <<>>
                     THEN Responded([@ EXCEPT !.quoteId = nextQuoteId], 200, "", nextQuoteId)
                     ELSE [@ EXCEPT !.pc = "link", !.quoteId = nextQuoteId]]
     ELSE /\ h' = [h EXCEPT ![p] = Responded(@, 500, "Server error", 0)]
          /\ UNCHANGED <<quotes, nextQuoteId>>
  /\ UNCHANGED <<env, now, files, nextFileId, disk, submits, HAS_URGENCY, hasCol,
                 detectQueries, call>>

LinkFailureSwallowed(hp) ==
  IF Len(hp.pending) = 1 THEN Responded(hp, 200, "", hp.quoteId)
  ELSE [hp EXCEPT !.pending = Tail(hp.pending)]

\* a throwing INSERT INTO files leaves the for loop for the catch block
LinkFailure(hp) == Responded(hp, 500, "Server error", 0)

\* one INSERT INTO files of the for loop settles; after the last one the
\* handler answers { id: quoteId }
LinkResolve(p, ok) ==
  /\ h[p].pc = "link"
  /\ IF ok /\ h[p].quoteId \in DOMAIN quotes
     THEN /\ files' = files @@
                 (nextFileId :> [quote_id |-> h[p].quoteId, path |-> Head(h[p].pending)])
          /\ nextFileId' = nextFileId + 1
          /\ h' = [h EXCEPT ![p] =
                     IF Len(h[p].pending) = 1
                     THEN Responded(@, 200, "", h[p].quoteId)
                     ELSE [@ EXCEPT !.pending = Tail(h[p].pending)]]
     ELSE /\ h' = [h EXCEPT ![p] = LinkFailure(@)]
          /\ UNCHANGED <<files, nextFileId>>
  /\ UNCHANGED <<env, now, quotes, nextQuoteId, disk, submits, HAS_URGENCY, hasCol,
                 detectQueries, call>>

(* ---------- admin routes ---------- *)
\* The storage is taken to answer every query of the admin routes; a failing
\* query is modelled in the submit handler, where the partial writes are.
Call(op, req, id, input, code, error, data) ==
  [op |-> op, req |-> req, id |-> id, input |-> input, code |-> code,
   error |-> error, data |-> data]

NoData == [none |-> TRUE]

\* a JSON value found at req.body.status
Json(t, v) == [t |-> t, v |-> v]

Str(s) == Json("string", s)
Undefined == Json("undefined", "")
ArrayOf(s) == Json("array", s)
PlainObject == Json("object", "")
ObjectWithToStringField == Json("object", "toString")

allowed == Statuses

\* req.params.id is text compared with an integer column. The ids of the
\* model are the integers the text denotes; NotAnInteger stands for a path
\* segment that is no integer literal (such as "abc"), on which the storage
\* rejects the statement and the route's catch block answers.
NotAnInteger == -1

\* (req.body?.status || '').toString(): a falsy value gives '', an array
\* joins its elements, a plain object gives '[object Object]', an object
\* whose own toString is not a function throws a TypeError
Coerce(b) ==
  CASE b.t = "undefined" -> [threw |-> FALSE, s |-> ""]
    [] b.t = "string" -> [threw |-> FALSE, s |-> b.v]
    [] b.t = "array" -> [threw |-> FALSE, s |-> b.v]
    [] b.t = "object" /\ b.v = "toString" -> [threw |-> TRUE, s |-> ""]
    [] OTHER -> [threw |-> FALSE, s |-> "[object Object]"]

\* PATCH /api/admin/quotes/:id/status
UpdateStatus(req, id, b) ==
  /\ IF ~requireAdmin(req)
     THEN /\ call' = Call("update", req, id, b, unauthorized.code, unauthorized.error, NoData)
          /\ UNCHANGED quotes
     ELSE IF Coerce(b).threw
     THEN /\ call' = Call("update", req, id, b, 500, "Server error", NoData)
          /\ UNCHANGED quotes
     ELSE IF Coerce(b).s \notin allowed
     THEN /\ call' = Call("update", req, id, b, 400, "Bad status", NoData)
          /\ UNCHANGED quotes
     ELSE IF id = NotAnInteger
     THEN /\ call' = Call("update", req, id, b, 500, "Server error", NoData)
          /\ UNCHANGED quotes
     ELSE IF id \notin DOMAIN quotes
     THEN /\ call' = Call("update", req, id, b, 404, "Not found", NoData)
          /\ UNCHANGED quotes
     ELSE IF ~CheckStatus(SetStatus(quotes[id], Coerce(b).s, now))
     THEN /\ call' = Call("update", req, id, b, 500, "Server error", NoData)
          /\ UNCHANGED quotes
     ELSE /\ quotes' = [quotes EXCEPT ![id] = SetStatus(@, Coerce(b).s, now)]
          /\ call' = Call("update", req, id, b, 200, "",
                          [status |-> quotes'[id].status,
                           updated_at |-> quotes'[id].updated_at])
  /\ UNCHANGED <<env, now, nextQuoteId, files, nextFileId, disk, submits, HAS_URGENCY,
                 hasCol, detectQueries, h>>

\* GET /api/admin/quotes/:id
GetDetail(req, id) ==
  /\ call' =
       IF ~requireAdmin(req)
       THEN Call("detail", req, id, NoData, unauthorized.code, unauthorized.error, NoData)
       ELSE IF id = NotAnInteger
       THEN Call("detail", req, id, NoData, 500, "Server error", NoData)
       ELSE IF id \notin DOMAIN quotes
       THEN Call("detail", req, id, NoData, 404, "Not found", NoData)
       ELSE Call("detail", req, id, NoData, 200, "",
                 [quote |-> quotes[id],
                  files |-> {f \in DOMAIN files : files[f].quote_id = id}])
  /\ UNCHANGED <<env, now, quotes, nextQuoteId, files, nextFileId, disk, submits,
                 HAS_URGENCY, hasCol, detectQueries, h>>

\* the response of GET /api/admin/files/:id in the current state
FileResponse(req, id) ==
  IF ~requireAdminAllowQuery(req)
  THEN Call("file", req, id, NoData, unauthorized.code, unauthorized.error, NoData)
  ELSE IF id = NotAnInteger
  THEN Call("file", req, id, NoData, 500, "Server error", NoData)
  ELSE IF id \notin DOMAIN files
  THEN Call("file", req, id, NoData, 404, "Not found", NoData)
  ELSE IF files[id].path \notin disk
  THEN Call("file", req, id, NoData, 404, "Missing file", NoData)
  ELSE Call("file", req, id, NoData, 200, "", [stream |-> files[id].path])

\* GET /api/admin/files/:id
GetFile(req, id) ==
  /\ call' = FileResponse(req, id)
  /\ UNCHANGED <<env, now, quotes, nextQuoteId, files, nextFileId, disk, submits,
                 HAS_URGENCY, hasCol, detectQueries, h>>

(* ---------- login ---------- *)
\* String.prototype.toLowerCase on the texts the model uses
ToLowerCase(s) ==
  CASE s = "Admin@Smile.TN" -> "admin@smile.tn"
    [] s = "Ana@Smile.TN" -> "ana@smile.tn"
    [] s = "Admin" -> "admin"
    [] s = "Secret" -> "secret"
    [] OTHER -> s

NoToken == [form |-> "null"]

loginCaseSensitive(email, password) ==
  IF env.ADMIN_EMAIL = "" \/ env.ADMIN_PASSWORD = "" THEN NoToken
  ELSE IF email = "" \/ password = "" THEN NoToken
  ELSE IF email # env.ADMIN_EMAIL THEN NoToken
  ELSE IF password # env.ADMIN_PASSWORD THEN NoToken
  ELSE TGood

\* login(email, password): null, or a token signed with JWT_SECRET carrying
\* role 'admin' and expiring in 7 days
login(email, password) ==
  IF env.ADMIN_EMAIL = "" \/ env.ADMIN_PASSWORD = "" THEN NoToken
  ELSE IF email = "" \/ password = "" THEN NoToken
  ELSE IF ToLowerCase(email) # ToLowerCase(env.ADMIN_EMAIL) THEN NoToken
  ELSE IF password # env.ADMIN_PASSWORD THEN NoToken
  ELSE TGood

\* LoginSchema.parse(req.body) returns (TRUE) or throws a ZodError (FALSE)
LoginSchema(body) ==
  /\ IsEmail(body.email)
  /\ body.password.t = "string" /\ body.password.len >= 1

\* POST /api/auth/login
Login(body) ==
  /\ call' =
       IF ~LoginSchema(body)
       THEN Call("login", NoAuth, 0, body, 400, "Invalid login payload", NoData)
       ELSE IF login(body.email.v, body.password.v) = NoToken
       THEN Call("login", NoAuth, 0, body, 401, "Bad credentials", NoData)
       ELSE Call("login", NoAuth, 0, body, 200, "",
                 [token |-> login(body.email.v, body.password.v)])
  /\ UNCHANGED <<env, now, quotes, nextQuoteId, files, nextFileId, disk, submits,
                 HAS_URGENCY, hasCol, detectQueries, h>>

(* ---------- list ---------- *)
DefaultLimit == 20
MaxLimit == 200

\* a query-string parameter: absent, a decimal integer, or other text
QAbsent == [t |-> "absent", n |-> 0]
QInt(n) == [t |-> "int", n |-> n]
QText == [t |-> "text", n |-> 0]

\* parseInt(x, 10): NaN unless the text starts with an integer
ParseInt(q) == [nan |-> q.t # "int", n |-> q.n]

\* x || d on a number: NaN and 0 are falsy
OrDefault(x, d) == IF x.nan \/ x.n = 0 THEN d ELSE x.n

Max2(a, b) == IF a > b THEN a ELSE b
Min2(a, b) == IF a < b THEN a ELSE b

\* Math.max(1, Math.min(200, parseInt(req.query.limit, 10) || 20))
EffLimit(q) == Max2(1, Min2(MaxLimit, OrDefault(ParseInt(q), DefaultLimit)))

\* Math.max(0, parseInt(req.query.offset, 10) || 0)
EffOffset(q) == Max2(0, OrDefault(ParseInt(q), 0))

StatusFilterAnyString(b) == IF b.t = "string" /\ b.v # "" THEN b.v ELSE Null

\* the status filter: the parameter when it is an allowed string, else null
StatusFilter(b) == IF b.t = "string" /\ b.v \in allowed THEN b.v ELSE Null

Matching(filter) ==
  {id \in DOMAIN quotes : filter = Null \/ quotes[id].status = filter}

\* the orders ORDER BY created_at DESC may return (ties in any order)
Orderings(S) ==
  {o \in [1..Cardinality(S) -> S] :
     /\ \A i, j \in 1..Cardinality(S) : i # j => o[i] # o[j]
     /\ \A i, j \in 1..Cardinality(S) :
          i < j => quotes[o[i]].created_at >= quotes[o[j]].created_at}

\* LIMIT l OFFSET o
Page(o, l, off) == SubSeq(o, off + 1, Min2(Len(o), off + l))

\* GET /api/admin/quotes
List(req, status, limit, offset) ==
  /\ \E o \in Orderings(Matching(StatusFilter(status))) :
       call' =
         LET input == [status |-> status, limit |-> limit, offset |-> offset]
         IN IF ~requireAdmin(req)
            THEN Call("list", req, 0, input, unauthorized.code, unauthorized.error, NoData)
            ELSE Call("list", req, 0, input, 200, "",
                      [limit |-> EffLimit(limit), offset |-> EffOffset(offset),
                       rows |-> Page(o, EffLimit(limit), EffOffset(offset))])
  /\ UNCHANGED <<env, now, quotes, nextQuoteId, files, nextFileId, disk, submits,
                 HAS_URGENCY, hasCol, detectQueries, h>>

(* ---------- environment ---------- *)
\* DELETE FROM quotes WHERE id = ..., issued directly against the storage
DeleteQuote(id) ==
  /\ id \in DOMAIN quotes
  /\ quotes' = [q \in DOMAIN quotes \ {id} |-> quotes[q]]
  /\ files' = Cascade(files, id)
  /\ UNCHANGED <<env, now, nextQuoteId, nextFileId, disk, submits, HAS_URGENCY, hasCol,
                 detectQueries, h, call>>

\* a file of UPLOAD_DIR is removed outside the program; its files row stays
RemoveUpload(f) ==
  /\ f \in disk
  /\ disk' = disk \ {f}
  /\ UNCHANGED <<env, now, quotes, nextQuoteId, files, nextFileId, submits, HAS_URGENCY,
                 hasCol, detectQueries, h, call>>

\* the storage clock advances
Tick ==
  /\ now < MaxTime
  /\ now' = now + 1
  /\ UNCHANGED <<env, quotes, nextQuoteId, files, nextFileId, disk, submits, HAS_URGENCY,
                 hasCol, detectQueries, h, call>>

(* ---------- specifications ---------- *)
Started ==
  /\ now = 0
  /\ quotes = <<>>
  /\ nextQuoteId = 1
  /\ files = <<>>
  /\ nextFileId = 1
  /\ disk = {}
  /\ submits = 0
  /\ HAS_URGENCY = Null
  /\ hasCol \in BOOLEAN
  /\ detectQueries = 0
  /\ h = [p \in Handlers |-> Idle]
  /\ call = [op |-> "none"]

\* the deployment the other specifications run in: an administrator is set
Configured == [ADMIN_EMAIL |-> "admin@smile.tn", ADMIN_PASSWORD |-> "secret"]

Init == env = Configured /\ Started

StatusInputs ==
  {Str(s) : s \in Statuses} \cup
  {Str(""), Str("archived"), Undefined, ArrayOf("closed"), PlainObject,
   ObjectWithToStringField}

\* Request lifecycle: submissions without files on one connection, status
\* updates by the administrator, direct deletions, the clock.
Next ==
  \/ \E valid \in BOOLEAN : submits < MaxRows /\ SubmitBegin("h1", 0, valid)
  \/ \E outcome \in {"rows", "error"} : DetectResolve("h1", outcome)
  \/ \E ok \in BOOLEAN : InsertResolve("h1", ok)
  \/ \E id \in 1..(MaxRows + 1), b \in StatusInputs : UpdateStatus(Header(TGood), id, b)
  \/ \E id \in 1..MaxRows : DeleteQuote(id)
  \/ Tick

Spec == Init /\ [][Next]_vars

\* Concurrent submissions with files on two connections, direct deletions.
NextSubmit ==
  \/ \E p \in Handlers, n \in 0..MaxFiles, valid \in BOOLEAN :
       submits < MaxSubmits /\ SubmitBegin(p, n, valid)
  \/ \E p \in Handlers, outcome \in {"rows", "error"} : DetectResolve(p, outcome)
  \/ \E p \in Handlers, ok \in BOOLEAN : InsertResolve(p, ok)
  \/ \E p \in Handlers, ok \in BOOLEAN : LinkResolve(p, ok)
  \/ \E id \in 1..MaxSubmits : DeleteQuote(id)

SpecSubmit == Init /\ [][NextSubmit]_vars

\* The authorization boundary: the four admin routes called with every
\* combination of Authorization header and token query parameter.
Tokens == {TGood, TExpired, TBadSig, TMalformed, TUser}

AuthRequests ==
  {Req(hd[1], hd[2], q[1], q[2]) :
     hd \in ({<<"", EmptyString>>, <<"Basic", TGood>>} \cup {<<"Bearer", t>> : t \in Tokens}),
     q \in ({<<"absent", EmptyString>>, <<"string", EmptyString>>, <<"array", TGood>>}
              \cup {<<"string", t>> : t \in Tokens})}

NextAuth ==
  \/ submits < MaxRows /\ SubmitBegin("h1", 1, TRUE)
  \/ \E outcome \in {"rows", "error"} : DetectResolve("h1", outcome)
  \/ InsertResolve("h1", TRUE)
  \/ LinkResolve("h1", TRUE)
  \/ \E req \in AuthRequests, id \in 1..MaxRows : UpdateStatus(req, id, Str("closed"))
  \/ \E req \in AuthRequests, id \in 1..MaxRows : GetDetail(req, id)
  \/ \E req \in AuthRequests, id \in 1..MaxRows : GetFile(req, id)
  \/ \E req \in AuthRequests : List(req, Undefined, QAbsent, QAbsent)

SpecAuth == Init /\ [][NextAuth]_vars

\* Listing: paginated lists over the submitted requests.
LimitInputs ==
  {QAbsent, QText, QInt(-1), QInt(0), QInt(1), QInt(2), QInt(MaxLimit), QInt(MaxLimit + 1)}

OffsetInputs == {QAbsent, QText, QInt(-1), QInt(0), QInt(1)}

NextList ==
  \/ submits < MaxSubmits /\ SubmitBegin("h1", 0, TRUE)
  \/ \E outcome \in {"rows", "error"} : DetectResolve("h1", outcome)
  \/ InsertResolve("h1", TRUE)
  \/ Tick
  \/ \E limit \in LimitInputs, offset \in OffsetInputs :
       List(Header(TGood), Undefined, limit, offset)

SpecList == Init /\ [][NextList]_vars

\* Attachment retrieval: one submission with files, files lost from the
\* upload directory, retrieval by the administrator of every attachment id.
NextFiles ==
  \/ \E n \in 1..MaxFiles : submits < MaxRows /\ SubmitBegin("h1", n, TRUE)
  \/ \E outcome \in {"rows", "error"} : DetectResolve("h1", outcome)
  \/ InsertResolve("h1", TRUE)
  \/ \E ok \in BOOLEAN : LinkResolve("h1", ok)
  \/ \E f \in disk : RemoveUpload(f)
  \/ \E id \in 1..(MaxFiles + 1) : GetFile(Header(TGood), id)

SpecFiles == Init /\ [][NextFiles]_vars

\* Intake: submissions on one connection with every combination of field
\* values around the schema's limits, and uploads within and over the limits.
Bodies ==
  [name : {Text(1), Text(2)},
   email : {Word("ana@smile.tn"), Word("ana.smile.tn")},
   phone : {Text(3), Text(4)},
   urgency : {Missing, Word("Plus tard"), Word("Urgent")},
   notes : {Text(NotesLimit), Text(NotesLimit + 1)},
   consent : {Missing, Word("false"), Word("yes")}]

UploadCounts == {0, MaxFiles, FileCountLimit, FileCountLimit + 1}

UploadSizes == {1, FileSizeLimit + 1}

NextIntake ==
  \/ \E n \in 0..MaxFiles, body \in Bodies :
       submits < MaxSubmits /\ SubmitBegin("h1", n, QuoteSchema(body))
  \/ \E n \in UploadCounts, size \in UploadSizes :
       submits < MaxSubmits /\ SubmitOverLimit("h1", n, size)
  \/ \E outcome \in {"rows", "error"} : DetectResolve("h1", outcome)
  \/ \E ok \in BOOLEAN : InsertResolve("h1", ok)
  \/ \E ok \in BOOLEAN : LinkResolve("h1", ok)

SpecIntake == Init /\ [][NextIntake]_vars

\* Lookup by id: status updates and detail reads addressed to existing,
\* deleted, never-assigned and non-numeric ids.
PathIds == {NotAnInteger} \cup 1..(MaxRows + 1)

NextLookup ==
  \/ submits < MaxRows /\ SubmitBegin("h1", 0, TRUE)
  \/ \E outcome \in {"rows", "error"} : DetectResolve("h1", outcome)
  \/ InsertResolve("h1", TRUE)
  \/ \E id \in 1..MaxRows : DeleteQuote(id)
  \/ \E id \in PathIds, b \in {Str("closed"), Str("quoted"), Str("archived")} :
       UpdateStatus(Header(TGood), id, b)
  \/ \E id \in PathIds : GetDetail(Header(TGood), id)
  \/ Tick

SpecLookup == Init /\ [][NextLookup]_vars

\* Ownership: submissions with files on two connections, interleaved with
\* status updates, direct deletions and attachment retrieval.
NextOwnership ==
  \/ \E p \in Handlers, n \in 1..MaxFiles :
       submits < MaxRows /\ SubmitBegin(p, n, TRUE)
  \/ \E p \in Handlers, outcome \in {"rows", "error"} : DetectResolve(p, outcome)
  \/ \E p \in Handlers : InsertResolve(p, TRUE)
  \/ \E p \in Handlers : LinkResolve(p, TRUE)
  \/ \E id \in 1..MaxRows : UpdateStatus(Header(TGood), id, Str("closed"))
  \/ \E id \in 1..MaxRows : DeleteQuote(id)
  \/ \E id \in 1..(MaxRows * MaxFiles) : GetFile(Header(TGood), id)

SpecOwnership == Init /\ [][NextOwnership]_vars

\* Filtered listing: requests in different statuses, listed with legal,
\* illegal, non-string and absent status parameters.
FilterInputs ==
  {Undefined, Str("pending"), Str("closed"), Str("archived"), Str(""), ArrayOf("closed"),
   PlainObject}

NextFilter ==
  \/ submits < MaxRows /\ SubmitBegin("h1", 0, TRUE)
  \/ \E outcome \in {"rows", "error"} : DetectResolve("h1", outcome)
  \/ InsertResolve("h1", TRUE)
  \/ \E id \in 1..MaxRows : UpdateStatus(Header(TGood), id, Str("closed"))
  \/ Tick
  \/ \E status \in FilterInputs, limit \in {QAbsent, QInt(1)}, offset \in {QAbsent, QInt(1)} :
       List(Header(TGood), status, limit, offset)

SpecFilter == Init /\ [][NextFilter]_vars

\* Frame of the status update: several requests with one attachment each,
\* updated while the clock advances.
NextFrame ==
  \/ submits < MaxSubmits /\ SubmitBegin("h1", 1, TRUE)
  \/ \E outcome \in {"rows", "error"} : DetectResolve("h1", outcome)
  \/ InsertResolve("h1", TRUE)
  \/ LinkResolve("h1", TRUE)
  \/ \E id \in 1..MaxSubmits : UpdateStatus(Header(TGood), id, Str("closed"))
  \/ Tick

SpecFrame == Init /\ [][NextFrame]_vars

\* Login: every deployment (administrator set, partly set, not set) and
\* every combination of email and password around the configured pair.
Envs ==
  [ADMIN_EMAIL : {"", "admin@smile.tn", "Admin@Smile.TN", "admin"},
   ADMIN_PASSWORD : {"", "secret"}]

LoginBodies ==
  [email : {Missing, Text(0), Word("admin@smile.tn"), Word("Admin@Smile.TN"),
            Word("ana@smile.tn"), Word("admin"), Word("Admin")},
   password : {Missing, Text(0), Word("secret"), Word("Secret")}]

InitLogin == env \in Envs /\ Started

NextLogin == \E body \in LoginBodies : Login(body)

SpecLogin == InitLogin /\ [][NextLogin]_vars

(* ---------- properties ---------- *)
InEnumeration(b) == b.t = "string" /\ b.v \in Statuses

\* the token is correctly signed, unexpired and carries the admin role
ValidAdminToken(t) == t.form = "jwt" /\ t.sig /\ ~t.expired /\ t.role = "admin"

\* the request carries a valid admin token in its header or its query
PresentsValidToken(req) ==
  \/ req.scheme = "Bearer" /\ ValidAdminToken(req.cred)
  \/ req.qkind = "string" /\ ValidAdminToken(req.qtok)

\* the files of handler p's submission that no files row refers to
Unlinked(p) ==
  {f \in disk : f[1] = h[p].sub /\ \A r \in DOMAIN files : files[r].path # f}

\* C1: every stored request has one of the six statuses and a creation time
\* not later than its update time.
StatusAndTimestampsLegal ==
  \A id \in DOMAIN quotes :
    /\ quotes[id].status \in Statuses
    /\ quotes[id].created_at <= quotes[id].updated_at

\* a request that was updated to another status after the clock moved on
UpdatedRequestStored ==
  \E id \in DOMAIN quotes :
    /\ quotes[id].status = "cancelled"
    /\ quotes[id].created_at < quotes[id].updated_at

\* a step that is an authorized status update, with one of the six values, of
\* an existing request
EnumeratedUpdateCall ==
  /\ call' # call /\ call'.op = "update"
  /\ requireAdmin(call'.req)
  /\ InEnumeration(call'.input)
  /\ call'.id \in DOMAIN quotes

\* C2 as stated: an authorized status update with one of the six values on an
\* existing request strictly increases the update timestamp and stores
\* exactly the input value.
UpdateStrictlyBumpsTimestamp ==
  [][EnumeratedUpdateCall
       => /\ quotes'[call'.id].status = call'.input.v
          /\ quotes'[call'.id].updated_at > quotes[call'.id].updated_at]_vars

\* C2 as amended: such an update stores exactly the input value and sets the
\* update timestamp to the clock's reading, from any previous status; the
\* timestamp increases strictly when the clock has advanced past it.
UpdateSetsStatusAndClockTime ==
  [][EnumeratedUpdateCall
       => /\ quotes'[call'.id].status = call'.input.v
          /\ quotes'[call'.id].updated_at = now
          /\ call'.code = 200
          /\ (now > quotes[call'.id].updated_at
                => quotes'[call'.id].updated_at > quotes[call'.id].updated_at)]_vars

\* a request was set back to pending by an update after its creation
ReopenedRequest ==
  /\ call.op = "update" /\ call.code = 200 /\ call.input = Str("pending")
  /\ call.id \in DOMAIN quotes
  /\ quotes[call.id].status = "pending"
  /\ quotes[call.id].updated_at > quotes[call.id].created_at

\* C3 as stated: a status update whose status value is not one of the six
\* values mutates no request and is answered with a 4xx error.
BadStatusRejectedWithoutMutation ==
  [][\A id \in 1..(MaxRows + 1), b \in StatusInputs :
       (~InEnumeration(b) /\ UpdateStatus(Header(TGood), id, b))
         => /\ quotes' = quotes
            /\ call'.code \in 400..499]_vars

\* C4: the id in a success response of submit is that of the request the
\* handler inserted, and a request is inserted with status pending and equal
\* creation and update timestamps.
SubmitReturnsFreshPendingRequest ==
  [][\A p \in Handlers :
       /\ (h[p].pc = "insert" /\ h'[p].quoteId # 0)
            => /\ h'[p].quoteId \in DOMAIN quotes' \ DOMAIN quotes
               /\ quotes'[h'[p].quoteId].status = "pending"
               /\ quotes'[h'[p].quoteId].created_at = quotes'[h'[p].quoteId].updated_at
       /\ (h[p].pc = "link" => h'[p].quoteId = h[p].quoteId)
       /\ (h[p].pc # "idle" /\ h'[p].pc = "idle" /\ h'[p].code = 200)
            => (h'[p].id = h'[p].quoteId /\ h'[p].id # 0)]_vars

\* a submit has answered with the id of a stored pending request
SubmitAnswered ==
  \E p \in Handlers :
    /\ h[p].pc = "idle" /\ h[p].code = 200
    /\ h[p].id \in DOMAIN quotes
    /\ quotes[h[p].id].status = "pending"
    /\ quotes[h[p].id].created_at = now /\ now > 0

\* C5: a call to an admin route that presents no valid admin token is
\* answered 401 without data and changes no request or attachment row; a
\* request's status changes only by an update call presenting such a token.
AdminRoutesRequireValidToken ==
  [][/\ (call' # call /\ ~PresentsValidToken(call'.req))
          => /\ call'.code = 401 /\ call'.data = NoData
             /\ quotes' = quotes /\ files' = files
     /\ \A id \in DOMAIN quotes \cap DOMAIN quotes' :
          quotes'[id].status # quotes[id].status
            => (call' # call /\ call'.op = "update" /\ PresentsValidToken(call'.req))]_vars

\* an update with a correctly signed, unexpired non-admin token was refused
NonAdminUpdateRefused ==
  /\ call.op = "update" /\ call.req = Header(TUser) /\ call.code = 401
  /\ call.id \in DOMAIN quotes

\* C6: a valid admin token supplied only as the token query parameter is
\* accepted by the lenient guard (file retrieval) and rejected with 401 by
\* the strict guard (list, detail, update).
QueryTokenOnlyOnLenientGuard ==
  (/\ call.op # "none"
   /\ call.req.scheme = "" /\ call.req.qkind = "string"
   /\ ValidAdminToken(call.req.qtok))
    => (call.op = "file" <=> call.code # 401)

\* a file was streamed to a call carrying the token in the query only
FileServedByQueryToken ==
  call.op = "file" /\ call.req = Query(TGood) /\ call.code = 200

\* C7: a call that presents only expired, malformed, wrongly signed or
\* non-admin tokens, in the header, the query or both, gets the one 401
\* Unauthorized response on every admin route.
BadTokens == {TExpired, TBadSig, TMalformed, TUser}

PresentsOnlyBadTokens(req) ==
  /\ (req.scheme = "Bearer" /\ req.cred \in BadTokens)
       \/ (req.qkind = "string" /\ req.qtok \in BadTokens)
  /\ req.scheme = "Bearer" => req.cred \in BadTokens
  /\ req.qkind = "string" => req.qtok \in BadTokens \cup {EmptyString}
  /\ req.scheme # "Basic" /\ req.qkind # "array"

BadTokensUniformlyRejected ==
  (call.op # "none" /\ PresentsOnlyBadTokens(call.req))
    => <<call.code, call.error, call.data>> = <<401, "Unauthorized", NoData>>

\* an expired token in the query was refused by the lenient guard
ExpiredQueryTokenRefused ==
  call.op = "file" /\ call.req = Query(TExpired) /\ call.code = 401
  /\ call.id \in DOMAIN files

\* a step in which an INSERT INTO files of handler p fails
LinkFails(p) == h[p].pc = "link" /\ h'[p] # h[p] /\ files' = files

\* C8 as stated: when a link insert fails after the request row was
\* inserted, the request stays, the loop goes on so that only that file is
\* unlinked, and the caller gets a success response with the request id.
LinkFailureAnsweredWithSuccess ==
  [][\A p \in Handlers :
       LinkFails(p)
         => /\ quotes' = quotes
            /\ IF Len(h[p].pending) = 1
               THEN h'[p].pc = "idle" /\ h'[p].code = 200 /\ h'[p].id = h[p].quoteId
               ELSE h'[p].pc = "link" /\ h'[p].pending = Tail(h[p].pending)]_vars

\* C8 as amended: the request stays, that file and every file after it in
\* the submission stay unlinked, and the caller gets a 500 without the id.
LinkFailureAnsweredWithServerError ==
  [][\A p \in Handlers :
       LinkFails(p)
         => /\ quotes' = quotes
            /\ h'[p].pc = "idle"
            /\ h'[p].code = 500 /\ h'[p].error = "Server error" /\ h'[p].id = 0
            /\ files' = files
            /\ \A i \in 1..Len(h[p].pending) : h[p].pending[i] \in Unlinked(p)']_vars

\* a submission of two files answered 500 with its request stored and both
\* files unlinked
RequestStoredFilesUnlinked ==
  \E p \in Handlers :
    /\ h[p].pc = "idle" /\ h[p].code = 500
    /\ h[p].quoteId \in DOMAIN quotes
    /\ Cardinality(Unlinked(p)) = 2

\* C9 as stated: the catalog query is issued at most once, and a resolved
\* cache value is never assigned again.
DetectedAtMostOnce ==
  [][/\ detectQueries' <= 1
     /\ HAS_URGENCY # Null
          => ~(\E p \in Handlers, outcome \in {"rows", "error"} : DetectResolve(p, outcome))]_vars

\* C10 as stated: the effective limit is the requested limit clamped to
\* [1,200] and the effective offset the requested offset clamped to >= 0, so
\* limit=0 returns at most the one row limit=1 returns.
ListClampsLimitAndOffset ==
  (call.op = "list" /\ call.code = 200)
    => /\ call.input.limit.t = "int"
            => /\ call.data.limit = Max2(1, Min2(MaxLimit, call.input.limit.n))
               /\ Len(call.data.rows) <= Max2(1, Min2(MaxLimit, call.input.limit.n))
       /\ call.input.offset.t = "int"
            => call.data.offset = Max2(0, call.input.offset.n)

\* C11 as stated: an attachment id without a files row and an attachment id
\* whose file is gone from the upload directory get the same 404 response,
\* status and message alike.
NotFoundResponsesIdentical ==
  (call.op = "file" /\ call.code # 401)
    => \A absent, lost \in 1..(MaxFiles + 1) :
         (absent \notin DOMAIN files /\ lost \in DOMAIN files /\ files[lost].path \notin disk)
           => /\ FileResponse(call.req, absent).code = 404
              /\ FileResponse(call.req, lost).code = 404
              /\ FileResponse(call.req, lost).error = FileResponse(call.req, absent).error

\* C12 as stated: a submission with more than 10 file parts or with a file
\* larger than 10 MiB is answered with a 4xx error and creates no request
\* row and no attachment row.
OverLimitRejectedWithClientError ==
  [][\A n \in UploadCounts, size \in UploadSizes :
       ((n > 10 \/ size > 10 * 1024 * 1024) /\ SubmitOverLimit("h1", n, size))
         => /\ h'["h1"].pc = "idle"
            /\ h'["h1"].code \in 400..499
            /\ quotes' = quotes /\ files' = files]_vars

\* C13 as stated: a status update with a legal status, and a detail read,
\* addressed to an id that refers to no stored request answer 404 and change
\* no request row.
UnknownIdAnsweredNotFound ==
  [][(/\ call' # call
      /\ call'.op \in {"update", "detail"}
      /\ requireAdmin(call'.req)
      /\ call'.op = "update" => InEnumeration(call'.input)
      /\ call'.id \notin DOMAIN quotes)
       => call'.code = 404 /\ quotes' = quotes]_vars

Pages(status, limit, offset) ==
  {Page(o, EffLimit(limit), EffOffset(offset)) : o \in Orderings(Matching(StatusFilter(status)))}

\* C15: a list call whose status parameter is one of the six values returns
\* only requests in that status; a list call with any other status parameter
\* is answered 200 with a page the same call without the parameter may return.
ListFiltersByLegalStatusOnly ==
  [][(call' # call /\ call'.op = "list" /\ requireAdmin(call'.req))
       => /\ call'.code = 200
          /\ IF InEnumeration(call'.input.status)
             THEN /\ \A i \in 1..Len(call'.data.rows) :
                       quotes[call'.data.rows[i]].status = call'.input.status.v
                  /\ Len(call'.data.rows) =
                       Min2(EffLimit(call'.input.limit),
                            Max2(0, Cardinality({id \in DOMAIN quotes :
                                                  quotes[id].status = call'.input.status.v})
                                      - EffOffset(call'.input.offset)))
             ELSE call'.data.rows \in Pages(Undefined, call'.input.limit, call'.input.offset)]_vars

\* the one stored request is pending: the list filtered by status closed
\* returned no row, the list filtered by an unknown status would return it
FilteredListExcludesOtherStatus ==
  /\ call.op = "list" /\ call.code = 200
  /\ call.input.status = Str("closed") /\ call.input.offset = QAbsent
  /\ DOMAIN quotes = {1} /\ quotes[1].status = "pending"
  /\ call.data.rows = <<>>
  /\ Pages(Str("archived"), QAbsent, QAbsent) = {<<1>>}

\* the administrator is set and the supplied pair is the configured one,
\* the email compared without regard to case
CredentialsMatch(body) ==
  /\ env.ADMIN_EMAIL # "" /\ env.ADMIN_PASSWORD # ""
  /\ body.email.t = "string" /\ body.password.t = "string"
  /\ ToLowerCase(body.email.v) = ToLowerCase(env.ADMIN_EMAIL)
  /\ body.password.v = env.ADMIN_PASSWORD

\* C16 as stated: login issues a token exactly when the administrator is set
\* and the supplied pair matches; every other call gets the one
\* authentication-failure response and no token.
LoginFailuresUniform ==
  call.op = "login"
    => /\ call.code = 200 <=> CredentialsMatch(call.input)
       /\ call.code = 200 => ValidAdminToken(call.data.token)
       /\ call.code # 200
            => call.code = 401 /\ call.error = "Bad credentials" /\ call.data = NoData

\* the body has an email in email format and a non-empty password
WellFormedLogin(body) ==
  /\ body.email.t = "string" /\ body.email.v \in EmailTexts
  /\ body.password.t = "string" /\ body.password.v # ""

\* C16: a well-formed login gets a token exactly when the administrator is
\* set and the pair matches, and otherwise the one 401 response without a
\* token; a login that is not well-formed gets the 400 response without a
\* token, whatever the deployment and the credentials.
LoginFailuresUniformPerPayloadForm ==
  call.op = "login"
    => /\ call.code = 200 <=> (WellFormedLogin(call.input) /\ CredentialsMatch(call.input))
       /\ call.code = 200 => ValidAdminToken(call.data.token)
       /\ (call.code # 200 /\ WellFormedLogin(call.input))
            => call.code = 401 /\ call.error = "Bad credentials" /\ call.data = NoData
       /\ ~WellFormedLogin(call.input)
            => /\ call.code = 400 /\ call.error = "Invalid login payload"
               /\ call.data = NoData

\* a login with the configured email written in another case got a token
LoginMatchedIgnoringCase ==
  /\ call.op = "login" /\ call.code = 200
  /\ env.ADMIN_EMAIL = "admin@smile.tn"
  /\ call.input.email.v = "Admin@Smile.TN"
  /\ ValidAdminToken(call.data.token)

\* one of the fields the body carries is outside what the schema accepts
FailsValidation(body) ==
  \/ body.name.t = "string" /\ body.name.len < 2
  \/ body.email.t = "string" /\ body.email.v \notin EmailTexts
  \/ body.phone.t = "string" /\ body.phone.len < 4
  \/ body.urgency.t = "string" /\ body.urgency.v \notin Urgencies
  \/ body.notes.t = "string" /\ body.notes.len > 5000
  \/ body.consent.t = "string" /\ body.consent.v \notin {"true", "false"}

\* the step is the refusal of a submission of n files: the handler answers
\* 400 'Invalid payload' and ends, no row is written, the n files are stored
RefusedWithoutRows(n) ==
  /\ h'["h1"].pc = "idle"
  /\ h'["h1"].code = 400 /\ h'["h1"].error = "Invalid payload"
  /\ quotes' = quotes /\ nextQuoteId' = nextQuoteId
  /\ files' = files /\ nextFileId' = nextFileId
  /\ Cardinality({f \in disk' : f[1] = submits'}) = n
  /\ disk \subseteq disk'

\* C17: a submission with a field that fails validation is answered 400
\* 'Invalid payload' and ends there: no request row and no attachment row is
\* written, and the files uploaded with it stay in the upload directory.
\* (Every step is such a refusal, or is not a submission of n files, or is
\* not the submission of an invalid body.)
InvalidSubmissionWritesNoRow ==
  [][\A n \in 0..MaxFiles :
       \/ RefusedWithoutRows(n)
       \/ submits' # submits + 1
       \/ disk' # disk \cup Uploaded(submits + 1, n)
       \/ \A body \in Bodies :
            FailsValidation(body) => ~SubmitBegin("h1", n, QuoteSchema(body))]_vars

\* an invalid submission with two files was refused: no row exists, both
\* files are in the upload directory
InvalidSubmissionFilesOnDisk ==
  /\ h["h1"].pc = "idle" /\ h["h1"].code = 400 /\ h["h1"].sub = 1
  /\ Cardinality({f \in disk : f[1] = 1}) = 2
  /\ quotes = <<>> /\ files = <<>>

\* C18: a status update changes the status and the update time of the
\* addressed request and nothing else: its other columns, every other
\* request and every attachment row stay as they were; no step ever changes
\* the creation time of a stored request.
UpdateTouchesStatusAndUpdateTimeOnly ==
  [][/\ (call' # call /\ call'.op = "update" /\ call'.code = 200)
          => /\ DOMAIN quotes' = DOMAIN quotes
             /\ \A id \in DOMAIN quotes \ {call'.id} : quotes'[id] = quotes[id]
             /\ quotes'[call'.id].created_at = quotes[call'.id].created_at
             /\ quotes'[call'.id].vals = quotes[call'.id].vals
             /\ DOMAIN quotes'[call'.id] = {"status", "created_at", "updated_at", "vals"}
             /\ files' = files /\ nextFileId' = nextFileId /\ nextQuoteId' = nextQuoteId
     /\ (call' # call /\ call'.op = "update" /\ call'.code # 200)
          => quotes' = quotes /\ files' = files
     /\ \A id \in DOMAIN quotes \cap DOMAIN quotes' :
          quotes'[id].created_at = quotes[id].created_at]_vars

\* of two requests with an attachment each, created at time 0, the first was
\* closed at a later time and the second is as it was created
OneOfTwoRequestsUpdated ==
  /\ call.op = "update" /\ call.code = 200 /\ call.id = 1
  /\ DOMAIN quotes = {1, 2} /\ Cardinality(DOMAIN files) = 2
  /\ quotes[1].status = "closed" /\ quotes[1].updated_at > quotes[1].created_at
  /\ quotes[2] = NewQuoteRow(0) @@ [vals |-> 2]

\* C19: on the lenient guard a Bearer token in the header decides alone: a
\* call whose header carries an invalid Bearer token is refused with 401 even
\* when its query parameter holds a valid admin token, and a call whose
\* header carries a valid one is let through whatever the query holds.
HeaderTokenPrecedesQueryToken ==
  call.op = "file"
    => /\ (call.req.scheme = "Bearer" /\ call.req.cred.form # "empty"
            /\ ~ValidAdminToken(call.req.cred))
           => call.code = 401 /\ call.error = "Unauthorized"
       /\ (call.req.scheme = "Bearer" /\ ValidAdminToken(call.req.cred))
           => call.code # 401

\* a file call with an expired Bearer token in the header and a valid admin
\* token in the query parameter was refused
ValidQueryTokenBehindBadHeaderRefused ==
  /\ call.op = "file" /\ call.code = 401
  /\ call.req = Req("Bearer", TExpired, "string", TGood)
  /\ 1 \in DOMAIN files

\* C20 as stated: once HAS_URGENCY holds true or false it keeps that value
\* in every later step, so every submit that starts afterwards builds its
\* INSERT with the column set the flag had when it was first set.
UrgencyFlagSetOnce ==
  [][HAS_URGENCY # Null
       => /\ HAS_URGENCY' = HAS_URGENCY
          /\ \A p \in Handlers :
               (h[p].pc = "idle" /\ h'[p].pc = "insert")
                 => h'[p].urgency = (HAS_URGENCY = "true")]_vars

====
